---- MODULE Spec2Model ----
(***************************************************************************)
(* One invocation of mexFunction (src/src/infomapmex.cpp): parse_args, the *)
(* classification of a triplet list, the construction of the edge list,    *)
(* the call of the clustering engine and the mapping of its leaves to a    *)
(* membership vector.                                                      *)
(*                                                                         *)
(* Strings the program builds (the option string, a parameter name) are    *)
(* sequences of one-character strings.  A numeric parameter value v is the *)
(* integer v * 10^(FracDigits+1), so that one more decimal than            *)
(* std::to_string prints is represented.                                   *)
(*                                                                         *)
(* What the host and the libraries do is taken from their documentation:   *)
(* mexErrMsgTxt does not return to the MEX function; memory obtained from  *)
(* mxArrayToString is freed by the host when the MEX function ends;        *)
(* std::vector::at throws std::out_of_range.  The value of a pair is a     *)
(* real double scalar or a char array, the indices of a triplet are        *)
(* positive integers, and the engine (infomap::init, infomap::run) either  *)
(* throws a std::exception or leaves a tree whose leaves enumerate nodes.  *)
(***************************************************************************)
EXTENDS Integers, Sequences, FiniteSets, TLC

VARIABLES
    pc,                 \* control point of the invocation
    nOutputArgs,        \* number of outputs the caller asks for
    nInputArgs,         \* number of inputs the caller passes
    W,                  \* inputArgs[0], the matrix
    inputArgs,          \* inputArgs[1..], as far as parse_args has looked
    argcount,           \* parse_args: position of the pair being read
    err,                \* error_type returned by parse_args
    error_arg_pos,      \* *argposerr
    options,            \* pars.options
    feedingSparseMatrix,
    isSymmetric, isUpperTriangular, isLowerTriangular,
    edges,              \* edges_list / edges_weights, one <<from, to, w>> per edge
    G,                  \* the GraphC object G points to, if any
    engineCalls,        \* how often infomap::init / infomap::run were entered
    engineOptions,      \* the string infomap::init was given
    leaves,             \* the leaf traversal of resultNetwork
    outputArgs,         \* the slots assigned, outputArgs[0] and outputArgs[1]
    exc,                \* what() of the exception in flight, if any
    errMsg,             \* the text handed to mexErrMsgTxt
    live                \* buffers allocated and not yet released

vars == <<pc, nOutputArgs, nInputArgs, W, inputArgs, argcount, err, error_arg_pos,
          options, feedingSparseMatrix, isSymmetric, isUpperTriangular,
          isLowerTriangular, edges, G, engineCalls, engineOptions, leaves,
          outputArgs, exc, errMsg, live>>

-----------------------------------------------------------------------------
(* Bounds of the model *)

MaxPairs == 2       \* (name, value) pairs after the matrix
MaxRows == 4        \* rows of an M x 3 array
MaxIdx == 2         \* largest row / column index in a triplet
MaxLeaves == 3      \* leaves the engine returns; largest dense matrix

-----------------------------------------------------------------------------
(* error_type and error_strings *)

NO_ERROR == 0
ERROR_TOO_MANY_OUTPUT_ARGS == 1
ERROR_NOT_ENOUGH_ARGS == 2
ERROR_ARG_VALUE == 3
ERROR_ARG_TYPE == 4
ERROR_MATRIX == 5
ERROR_ARG_EMPTY == 6
ERROR_ARG_UNKNOWN == 7

error_strings(e) ==
    CASE e = NO_ERROR -> ""
      [] e = ERROR_TOO_MANY_OUTPUT_ARGS -> "Too many output arguments."
      [] e = ERROR_NOT_ENOUGH_ARGS -> "Not enough input arguments."
      [] e = ERROR_ARG_VALUE -> "Non valid argument value."
      [] e = ERROR_ARG_TYPE -> "Non valid argument type."
      [] e = ERROR_MATRIX -> "Non valid input adjacency matrix. PACO accepts symmetric real dense-type (n x n) matrices or sparse edges-list representation     [num_edges x 3] array of edges list with edge endpoints and weight."
      [] e = ERROR_ARG_EMPTY -> "Expected some argument value but empty found."
      [] e = ERROR_ARG_UNKNOWN -> "Unkwown argument."

\* what() of the std::logic_error thrown for an unclassifiable triplet list
NotTriangularWhat ==
    "Matrix is not symmetric, nor triangular lower or upper triangular. Check diagonal and non symmetric values."

NoException == "none"

-----------------------------------------------------------------------------
(* Text: decimal printing, std::to_string(double), strcasecmp *)

FracDigits == 6

Unit == 10 ^ (FracDigits + 1)

Digit(d) == <<"0", "1", "2", "3", "4", "5", "6", "7", "8", "9">>[d + 1]

RECURSIVE DecStr(_)
DecStr(n) ==
    IF n < 10 THEN <<Digit(n)>> ELSE DecStr(n \div 10) \o <<Digit(n % 10)>>

\* operator<<(int): an optional sign and the decimal digits
IntStr(n) == IF n < 0 THEN <<"-">> \o DecStr(-n) ELSE DecStr(n)

RECURSIVE PadFrac(_, _)
PadFrac(n, width) ==
    IF width = 0 THEN <<>> ELSE PadFrac(n \div 10, width - 1) \o <<Digit(n % 10)>>

\* std::to_string(double) prints with "%f": the sign, the integer part, a point
\* and FracDigits decimals, rounded to nearest (no value of the model is a tie).
to_string(v) ==
    LET a == IF v < 0 THEN -v ELSE v
        q == (a + 5) \div 10
        p == 10 ^ FracDigits
    IN  (IF v < 0 THEN <<"-">> ELSE <<>>)
        \o DecStr(q \div p) \o <<".">> \o PadFrac(q % p, FracDigits)

tolower(c) ==
    CASE c = "N" -> "n" [] c = "P" -> "p" [] c = "Y" -> "y"
      [] c = "M" -> "m" [] c = "A" -> "a" [] c = "R" -> "r" [] c = "K" -> "k"
      [] c = "O" -> "o" [] c = "V" -> "v" [] c = "T" -> "t" [] c = "I" -> "i"
      [] c = "E" -> "e" [] c = "F" -> "f" [] c = "X" -> "x"
      [] OTHER -> c

\* Mutant: the names compared with strcmp, letter case counting
strcmpEq(a, b) == a = b

\* strcasecmp(a, b) == 0
strcasecmpEq(a, b) ==
    /\ Len(a) = Len(b)
    /\ \A i \in 1..Len(a) : tolower(a[i]) = tolower(b[i])

Name_N == <<"N">>
Name_p == <<"p">>
Name_y == <<"y">>
Name_markov == <<"m", "a", "r", "k", "o", "v", "-", "t", "i", "m", "e">>

-----------------------------------------------------------------------------
(* parse_args *)

\* An argument after the matrix: a char array (str) or a real scalar (val).
TextArg(s) == [isChar |-> TRUE, str |-> s, val |-> 0]
NumArg(v) == [isChar |-> FALSE, str |-> <<>>, val |-> v]

\* lines 119-122 and 273-276
IsTripletForm(w) == w.N = 3 /\ w.M > 3

mxIsEmpty(w) == w.M = 0 \/ w.N = 0

\* lines 124-133: v1 || v2 || v3 || v4 || v5
MatrixRejected(w) ==
    LET v1 == IF IsTripletForm(w) THEN FALSE ELSE w.M # w.N
    IN  v1 \/ w.isComplex \/ mxIsEmpty(w) \/ w.isCell \/ ~w.isNumeric

\* The if / else-if chain of strcasecmp tests: the branch a name selects.
ParamBranch(cpartype) ==
    IF strcasecmpEq(cpartype, Name_N) THEN "N"
    ELSE IF strcasecmpEq(cpartype, Name_p) THEN "p"
    ELSE IF strcasecmpEq(cpartype, Name_y) THEN "y"
    ELSE IF strcasecmpEq(cpartype, Name_markov) THEN "markov-time"
    ELSE "unknown"

\* Mutant: the upper end of the range of p and y excluded
ValueRejectedAtOne(branch, v) ==
    CASE branch = "N" -> v < 0
      [] branch = "p" -> v < 0 \/ v >= Unit
      [] branch = "y" -> v < 0 \/ v >= Unit
      [] branch = "markov-time" -> v < 0

\* The range test of each branch (lines 161, 184, 197, 210).
ValueRejected(branch, v) ==
    CASE branch = "N" -> v < 0
      [] branch = "p" -> v < 0 \/ v > Unit
      [] branch = "y" -> v < 0 \/ v > Unit
      [] branch = "markov-time" -> v < 0

\* Mutant: the flags appended without the blank that ends them
FlagTextNoBlank(branch, v) ==
    CASE branch = "N" -> <<" ", "-", "N">> \o to_string(v)
      [] branch = "p" -> <<" ", "-", "p">> \o to_string(v)
      [] branch = "y" -> <<" ", "-", "y">> \o to_string(v)
      [] branch = "markov-time" ->
            <<" ", "-", "-">> \o Name_markov \o <<" ">> \o to_string(v)

\* What each branch appends to pars->options (lines 168, 191, 204, 217).
FlagText(branch, v) ==
    CASE branch = "N" -> <<" ", "-", "N">> \o to_string(v) \o <<" ">>
      [] branch = "p" -> <<" ", "-", "p">> \o to_string(v) \o <<" ">>
      [] branch = "y" -> <<" ", "-", "y">> \o to_string(v) \o <<" ">>
      [] branch = "markov-time" ->
            <<" ", "-", "-">> \o Name_markov \o <<" ">> \o to_string(v) \o <<" ">>

\* Mutant: the test of line 144 off by one
NothingFollowsOffByOne(argc, n) == argc + 1 > n

\* line 144: nothing follows the argument at argcount
NothingFollows(argc, n) == argc + 1 >= n

ParseVars == <<nOutputArgs, nInputArgs, W, feedingSparseMatrix, isSymmetric,
               isUpperTriangular, isLowerTriangular, edges, G, engineCalls,
               engineOptions, leaves, outputArgs, exc, errMsg>>

\* parse_args returns e with *argposerr = pos
ParseReturns(e, pos) ==
    /\ err' = e
    /\ error_arg_pos' = pos
    /\ pc' = "parsed"

\* lines 99-140: the checks before the loop
ParseHeader ==
    /\ pc = "call"
    /\ IF nInputArgs < 1 THEN ParseReturns(ERROR_NOT_ENOUGH_ARGS, 0)
       ELSE IF nOutputArgs > 2 THEN ParseReturns(ERROR_TOO_MANY_OUTPUT_ARGS, 0)
       ELSE IF MatrixRejected(W) THEN ParseReturns(ERROR_MATRIX, 0)
       ELSE /\ pc' = "loop"
            /\ UNCHANGED <<err, error_arg_pos>>
    /\ argcount' = 1
    /\ UNCHANGED <<inputArgs, options, live>>
    /\ UNCHANGED ParseVars

\* lines 141-233: one pass of the while loop, reading inputArgs[argcount] and
\* inputArgs[argcount+1]
ParsePair(Args) ==
    /\ pc = "loop"
    /\ argcount < nInputArgs
    /\ IF NothingFollows(argcount, nInputArgs)
       THEN \E last \in Args :
            /\ inputArgs' = Append(inputArgs, last)
            /\ ParseReturns(ERROR_ARG_EMPTY, argcount)
            /\ UNCHANGED <<argcount, options, live>>
       ELSE \E partype \in Args, parval \in Args :
            /\ inputArgs' = inputArgs \o <<partype, parval>>
            /\ IF partype.isChar /\ ~parval.isChar
               THEN LET cpartype == partype.str
                        branch == ParamBranch(cpartype)
                    IN  IF branch = "unknown"
                        THEN /\ ParseReturns(ERROR_ARG_UNKNOWN, argcount)
                             /\ live' = live \cup {"cpartype"}
                             /\ UNCHANGED <<argcount, options>>
                        ELSE IF ValueRejected(branch, parval.val)
                        THEN /\ ParseReturns(ERROR_ARG_VALUE, argcount + 1)
                             /\ live' = live \cup {"cpartype"}
                             /\ UNCHANGED <<argcount, options>>
                        ELSE /\ options' = options \o FlagText(branch, parval.val)
                             /\ argcount' = argcount + 2
                             \* mxFree(cpartype), line 232
                             /\ live' = (live \cup {"cpartype"}) \ {"cpartype"}
                             /\ UNCHANGED <<pc, err, error_arg_pos>>
               ELSE /\ ParseReturns(ERROR_ARG_TYPE, argcount)
                    /\ UNCHANGED <<argcount, options, live>>
    /\ UNCHANGED ParseVars

\* lines 141 and 234: the loop ends
ParseDone ==
    /\ pc = "loop"
    /\ ~(argcount < nInputArgs)
    /\ ParseReturns(NO_ERROR, error_arg_pos)
    /\ UNCHANGED <<inputArgs, argcount, options, live>>
    /\ UNCHANGED ParseVars

-----------------------------------------------------------------------------
(* mexFunction *)

\* Buffers that the end of the invocation releases whichever way it ends: the
\* objects of the call stack (pars.options, the edge vectors), destroyed when
\* their scope is left, and the memory of mxArrayToString, which the host frees
\* when the MEX function ends.  An object made with new is not among them.
ReleasedAtExit == {"options", "edges_list", "cpartype"}

\* lines 255-256: the text of the stringstream
ErrorText(e, pos) ==
    <<"Error at argument: ">> \o IntStr(pos) \o <<": ", error_strings(e)>>

\* Mutant: the error is reported by a call that returns, and the function goes on
CheckErrorFallsThrough ==
    /\ pc = "parsed"
    /\ errMsg' = IF err # NO_ERROR THEN ErrorText(err, error_arg_pos) ELSE errMsg
    /\ pc' = "graph"
    /\ UNCHANGED <<nOutputArgs, nInputArgs, W, inputArgs, argcount, err,
                   error_arg_pos, options, feedingSparseMatrix, isSymmetric,
                   isUpperTriangular, isLowerTriangular, edges, G, engineCalls,
                   engineOptions, leaves, outputArgs, exc, live>>

\* lines 251-260: if parse_args failed, mexErrMsgTxt ends the invocation
CheckError ==
    /\ pc = "parsed"
    /\ IF err # NO_ERROR
       THEN /\ errMsg' = ErrorText(err, error_arg_pos)
            /\ pc' = "error"
            /\ live' = live \ ReleasedAtExit
       ELSE /\ pc' = "graph"
            /\ UNCHANGED <<errMsg, live>>
    /\ UNCHANGED <<nOutputArgs, nInputArgs, W, inputArgs, argcount, err,
                   error_arg_pos, options, feedingSparseMatrix, isSymmetric,
                   isUpperTriangular, isLowerTriangular, edges, G, engineCalls,
                   engineOptions, leaves, outputArgs, exc>>

\* lines 287-294: B1.sum() and B2.sum()
RECURSIVE CountRows(_, _, _)
CountRows(data, l, lower) ==
    IF l = 0 THEN 0
    ELSE CountRows(data, l - 1, lower)
         + (IF lower = (data[l][1] >= data[l][2]) THEN 1 ELSE 0)

sum1(data) == CountRows(data, Len(data), TRUE)
sum2(data) == CountRows(data, Len(data), FALSE)

\* Mutants: the symmetric test met by a larger lower half too; the lower
\* triangular test a copy of the upper triangular one
SymmetricTestLoose(s1, s2, M) == s1 >= s2
LowerTestCopied(s1, s2, M) == s1 = 0 /\ s2 = M

\* lines 296-301
SymmetricTest(s1, s2, M) == s1 = s2
UpperTest(s1, s2, M) == s1 = 0 /\ s2 = M
LowerTest(s1, s2, M) == s1 = M /\ s2 = 0

\* lines 319-333: whether the loop appends an edge for the row
KeepsRow(upper, lower, symmetric, row) ==
    IF upper \/ lower THEN TRUE
    ELSE IF symmetric THEN row[1] < row[2]
    ELSE FALSE

\* Mutant: the endpoints pushed in the order (row, column)
EdgeOfRowSwapped(row) == <<row[1] - 1, row[2] - 1, row[3]>>

\* lines 321-323 and 329-331: (column_node-1, row_node-1) and w
EdgeOfRow(row) == <<row[2] - 1, row[1] - 1, row[3]>>

\* lines 313-334: the loop over the M rows
RECURSIVE EdgeLoop(_, _, _, _, _)
EdgeLoop(data, l, upper, lower, symmetric) ==
    IF l = 0 THEN <<>>
    ELSE EdgeLoop(data, l - 1, upper, lower, symmetric)
         \o (IF KeepsRow(upper, lower, symmetric, data[l])
             THEN <<EdgeOfRow(data[l])>> ELSE <<>>)

MexVars == <<nOutputArgs, nInputArgs, W, inputArgs, argcount, err, error_arg_pos>>

\* lines 267-308, sparse branch: the classification of the triplet list
ClassifyTriplets ==
    /\ pc = "graph"
    /\ W.M > 3 /\ W.N = 3
    /\ feedingSparseMatrix' = TRUE
    /\ LET s1 == sum1(W.data)
           s2 == sum2(W.data)
           sym == SymmetricTest(s1, s2, W.M)
           up == UpperTest(s1, s2, W.M)
           low == LowerTest(s1, s2, W.M)
       IN  /\ isSymmetric' = sym
           /\ isUpperTriangular' = up
           /\ isLowerTriangular' = low
           /\ IF ~sym /\ ~up /\ ~low
              THEN /\ exc' = NotTriangularWhat
                   /\ pc' = "caught"
              ELSE /\ pc' = "edges"
                   /\ exc' = exc
    /\ UNCHANGED <<options, edges, G, engineCalls, engineOptions, leaves,
                   outputArgs, errMsg, live>>
    /\ UNCHANGED MexVars

\* lines 310-334: edges_list and edges_weights are filled
BuildEdges ==
    /\ pc = "edges"
    /\ edges' = EdgeLoop(W.data, W.M, isUpperTriangular, isLowerTriangular,
                         isSymmetric)
    /\ live' = live \cup {"edges_list"}
    /\ pc' = "newgraph"
    /\ UNCHANGED <<options, feedingSparseMatrix, isSymmetric, isUpperTriangular,
                   isLowerTriangular, G, engineCalls, engineOptions, leaves,
                   outputArgs, exc, errMsg>>
    /\ UNCHANGED MexVars

\* GraphC::number_of_nodes of a graph made from an edge list
RECURSIVE MaxEndpoint(_, _)
MaxEndpoint(es, l) ==
    IF l = 0 THEN -1
    ELSE LET m == MaxEndpoint(es, l - 1)
             a == IF es[l][1] > es[l][2] THEN es[l][1] ELSE es[l][2]
         IN  IF a > m THEN a ELSE m

EdgeListNodes(es) == MaxEndpoint(es, Len(es)) + 1

\* lines 336-337: G = new GraphC(edges...); the edge vectors leave their scope
NewSparseGraph ==
    /\ pc = "newgraph"
    /\ G' = [isNull |-> FALSE, nodes |-> EdgeListNodes(edges), edges |-> edges]
    /\ live' = (live \cup {"G"}) \ {"edges_list"}
    /\ pc' = "engine"
    /\ UNCHANGED <<options, feedingSparseMatrix, isSymmetric, isUpperTriangular,
                   isLowerTriangular, edges, engineCalls, engineOptions, leaves,
                   outputArgs, exc, errMsg>>
    /\ UNCHANGED MexVars

\* lines 267-276 and 338-341, dense branch: G = new GraphC(W, N, N)
NewDenseGraph ==
    /\ pc = "graph"
    /\ ~(W.M > 3 /\ W.N = 3)
    /\ feedingSparseMatrix' = FALSE
    /\ G' = [isNull |-> FALSE, nodes |-> W.N, edges |-> <<>>]
    /\ live' = live \cup {"G"}
    /\ pc' = "engine"
    /\ UNCHANGED <<options, isSymmetric, isUpperTriangular, isLowerTriangular,
                   edges, engineCalls, engineOptions, leaves, outputArgs, exc,
                   errMsg>>
    /\ UNCHANGED MexVars

TwoLevel == <<"-", "-", "t", "w", "o", "-", "l", "e", "v", "e", "l">>

\* line 344
FinalOptions(opts) == opts \o TwoLevel

\* lines 343-349: the option string is completed and the engine runs; the
\* engine either throws or leaves a result (its leaves, its codelength)
RunEngine(Results) ==
    /\ pc = "engine"
    /\ options' = FinalOptions(options)
    /\ engineOptions' = options'
    /\ engineCalls' = engineCalls + 1
    /\ \/ /\ exc' = "engine failure"
          /\ pc' = "caught"
          /\ leaves' = leaves
       \/ \E r \in Results :
          /\ leaves' = r
          /\ pc' = "output"
          /\ exc' = exc
    /\ UNCHANGED <<feedingSparseMatrix, isSymmetric, isUpperTriangular,
                   isLowerTriangular, edges, G, outputArgs, errMsg, live>>
    /\ UNCHANGED MexVars

\* lines 352-356: membership(n), then membership.at(originalLeafIndex) =
\* parentIndex for each leaf in turn; at() throws std::out_of_range
Zeros(n) == [i \in 1..n |-> 0]

\* Mutant: the bound of at() off by one
InBoundsOffByOne(index, n) == index <= n

\* the range check of std::vector::at
InBounds(index, n) == index < n

\* membership.at(i) = c; the vector is indexed from 0, the sequence from 1
StoreAt(m, i, c) == [m EXCEPT ![i + 1] = c]

RECURSIVE LeafLoop(_, _, _)
LeafLoop(ls, k, n) ==
    IF k = 0 THEN [thrown |-> FALSE, membership |-> Zeros(n)]
    ELSE LET r == LeafLoop(ls, k - 1, n)
         IN  IF r.thrown THEN r
             ELSE IF ~InBounds(ls[k].originalLeafIndex, n)
             THEN [thrown |-> TRUE, membership |-> r.membership]
             ELSE [thrown |-> FALSE,
                   membership |-> StoreAt(r.membership, ls[k].originalLeafIndex,
                                          ls[k].parentIndex)]

\* lines 350-363: the outputs are made, G is deleted
MapResult ==
    /\ pc = "output"
    /\ LET n == G.nodes
           r == LeafLoop(leaves.leaves, Len(leaves.leaves), n)
       IN  IF r.thrown
           THEN /\ outputArgs' = [assigned |-> {0}, membership |-> Zeros(n),
                                  codelength |-> 0]
                /\ exc' = "vector::_M_range_check"
                /\ pc' = "caught"
                /\ UNCHANGED <<G, live>>
           ELSE /\ outputArgs' = [assigned |-> {0, 1}, membership |-> r.membership,
                                  codelength |-> leaves.codelength]
                /\ G' = G
                /\ live' = live \ {"G"}
                /\ pc' = "return"
                /\ exc' = exc
    /\ UNCHANGED <<options, feedingSparseMatrix, isSymmetric, isUpperTriangular,
                   isLowerTriangular, edges, engineCalls, engineOptions, leaves,
                   errMsg>>
    /\ UNCHANGED MexVars

\* lines 365-369: catch (std::exception &e): mexErrMsgTxt(e.what()) ends the
\* invocation; nothing deletes G on this path
CatchException ==
    /\ pc = "caught"
    /\ errMsg' = <<exc>>
    /\ pc' = "error"
    /\ live' = live \ ReleasedAtExit
    /\ UNCHANGED <<options, feedingSparseMatrix, isSymmetric, isUpperTriangular,
                   isLowerTriangular, edges, G, engineCalls, engineOptions, leaves,
                   outputArgs, exc>>
    /\ UNCHANGED MexVars

\* lines 371-373: the function returns its outputs
Return ==
    /\ pc = "return"
    /\ pc' = "returned"
    /\ live' = live \ ReleasedAtExit
    /\ UNCHANGED <<options, feedingSparseMatrix, isSymmetric, isUpperTriangular,
                   isLowerTriangular, edges, G, engineCalls, engineOptions, leaves,
                   outputArgs, exc, errMsg>>
    /\ UNCHANGED MexVars

-----------------------------------------------------------------------------
(* The inputs of an invocation *)

Array(M, N, data) ==
    [M |-> M, N |-> N, isComplex |-> FALSE, isCell |-> FALSE, isNumeric |-> TRUE,
     data |-> data]

\* The two weight columns tried: increasing and decreasing with the row, so that
\* every row of an array has a weight of its own.
WeightOf(pattern, l) == IF pattern = 0 THEN 10 + l ELSE 30 - l

\* The real M x 3 array of the index pairs rc with a weight column
TripletArray(rc, pattern) ==
    Array(Len(rc), 3, [l \in 1..Len(rc) |-> <<rc[l][1], rc[l][2], WeightOf(pattern, l)>>])

\* Real square arrays, whose entries the program hands to GraphC unread
DenseArrays(Ns) == { Array(N, N, <<>>) : N \in Ns }

\* Arrays parse_args rejects: not square, complex, empty, a cell, a char array
BadArrays ==
    { Array(2, 1, <<>>),
      [Array(2, 2, <<>>) EXCEPT !.isComplex = TRUE],
      Array(0, 0, <<>>),
      [Array(2, 2, <<>>) EXCEPT !.isCell = TRUE, !.isNumeric = FALSE],
      [Array(2, 2, <<>>) EXCEPT !.isNumeric = FALSE] }

ParamNames ==
    { <<"N">>, <<"n">>, <<"P">>, <<"y">>,
      <<"M", "A", "R", "K", "O", "V", "-", "T", "I", "M", "E">>,
      <<"f", "o", "o">>, <<"N", "x">> }

\* -0.0000001, 0, 0.2, 1 and 1.0000001
ParamValues == { -1, 0, 2 * (Unit \div 10), Unit, Unit + 1 }

AllArgs == { TextArg(s) : s \in ParamNames } \cup { NumArg(v) : v \in ParamValues }

RECURSIVE SeqsUpTo(_, _)
SeqsUpTo(S, n) ==
    IF n = 0 THEN { <<>> }
    ELSE LET T == SeqsUpTo(S, n - 1)
         IN  T \cup { Append(t, x) : t \in { u \in T : Len(u) = n - 1 }, x \in S }

Leaf(i, c) == [originalLeafIndex |-> i, parentIndex |-> c]

\* The leaf traversal enumerates nodes: no original index comes twice
Enumeration(ls) ==
    \A j, k \in 1..Len(ls) :
        j # k => ls[j].originalLeafIndex # ls[k].originalLeafIndex

\* Results of the engine: up to maxLen leaves, in any order, with original
\* indices in 0..maxIdx and a cluster each
EngineResults(maxLen, maxIdx) ==
    { [leaves |-> ls, codelength |-> 7] :
        ls \in { t \in SeqsUpTo({ Leaf(i, c) : i \in 0..maxIdx, c \in {0, 1} }, maxLen) :
                   Enumeration(t) } }

NoGraph == [isNull |-> TRUE, nodes |-> 0, edges |-> <<>>]

\* The state on entry to mexFunction, after InfomapParams pars (line 247) and
\* int error_arg_pos = -1 (line 250)
InitWith(nOut, nIn, w) ==
    /\ pc = "call"
    /\ nOutputArgs = nOut
    /\ nInputArgs = nIn
    /\ W = w
    /\ inputArgs = <<>>
    /\ argcount = 0
    /\ err = NO_ERROR
    /\ error_arg_pos = -1
    /\ options = <<>>
    /\ feedingSparseMatrix = FALSE
    /\ isSymmetric = FALSE
    /\ isUpperTriangular = FALSE
    /\ isLowerTriangular = FALSE
    /\ edges = <<>>
    /\ G = NoGraph
    /\ engineCalls = 0
    /\ engineOptions = <<>>
    /\ leaves = [leaves |-> <<>>, codelength |-> 0]
    /\ outputArgs = [assigned |-> {}, membership |-> <<>>, codelength |-> 0]
    /\ exc = NoException
    /\ errMsg = <<>>
    /\ live = {"options"}

NextWith(Args, Results) ==
    \/ ParseHeader
    \/ ParsePair(Args)
    \/ ParseDone
    \/ CheckError
    \/ ClassifyTriplets
    \/ BuildEdges
    \/ NewSparseGraph
    \/ NewDenseGraph
    \/ RunEngine(Results)
    \/ MapResult
    \/ CatchException
    \/ Return

\* A symmetric list (a path of three nodes, both directions) and one that is
\* neither symmetric nor triangular
SymmetricList == TripletArray(<<<<1, 2>>, <<2, 3>>, <<2, 1>>, <<3, 2>>>>, 0)
UnclassifiableList == TripletArray(<<<<1, 2>>, <<2, 1>>, <<3, 1>>, <<3, 2>>>>, 1)
FewTriplets == { SymmetricList, UnclassifiableList }

\* Every argument list of up to MaxPairs pairs, over a few matrices
Init ==
    \/ \E nOut \in {2, 3} : InitWith(nOut, 0, Array(0, 0, <<>>))
    \/ \E nOut \in {2, 3}, nIn \in 1..(2 * MaxPairs + 1),
          w \in DenseArrays({2}) \cup { Array(2, 1, <<>>) } \cup FewTriplets :
            InitWith(nOut, nIn, w)

Next == NextWith(AllArgs, EngineResults(1, 2))

Spec == Init /\ [][Next]_vars

\* Every M x 3 array of up to MaxRows rows, with at most one argument after it
InitMatrix ==
    \E nIn \in {1, 2} :
        \/ \E M \in 1..MaxRows :
             \E rc \in [1..M -> (1..MaxIdx) \X (1..MaxIdx)], pattern \in {0, 1} :
                InitWith(2, nIn, TripletArray(rc, pattern))
        \/ \E w \in DenseArrays({1, 2}) \cup BadArrays : InitWith(2, nIn, w)

NextMatrix == NextWith({ NumArg(0) }, EngineResults(0, 0))

SpecMatrix == InitMatrix /\ [][NextMatrix]_vars

\* Every leaf sequence of up to MaxLeaves leaves, over graphs of 1..MaxLeaves nodes
InitEngine ==
    \E nOut \in {0, 2}, nIn \in {1, 2},
       w \in DenseArrays(1..MaxLeaves) \cup BadArrays \cup FewTriplets :
        InitWith(nOut, nIn, w)

NextEngine == NextWith({ NumArg(0) }, EngineResults(MaxLeaves, MaxLeaves))

SpecEngine == InitEngine /\ [][NextEngine]_vars

-----------------------------------------------------------------------------
(* Vocabulary of the properties *)

Finished == pc \in {"error", "returned"}

\* parse_args has returned
Parsed == pc \notin {"call", "loop"}

RowsLower(w) == { l \in 1..w.M : w.data[l][1] >= w.data[l][2] }
RowsUpper(w) == { l \in 1..w.M : w.data[l][1] < w.data[l][2] }

\* A real numeric array of three columns
RealThreeColumn(w) == w.N = 3 /\ w.M >= 1 /\ w.isNumeric /\ ~w.isComplex /\ ~w.isCell

\* A triplet list none of the three tests accepts
Unclassifiable(w) ==
    /\ RealThreeColumn(w) /\ w.M > 3
    /\ Cardinality(RowsLower(w)) # Cardinality(RowsUpper(w))
    /\ ~(Cardinality(RowsLower(w)) = 0 /\ Cardinality(RowsUpper(w)) = w.M)
    /\ ~(Cardinality(RowsLower(w)) = w.M /\ Cardinality(RowsUpper(w)) = 0)

\* The shape the invocation has given the matrix: the flags of lines 272-301
\* read in the order symmetric, upper, lower
MatrixShape ==
    IF Parsed /\ err = ERROR_MATRIX THEN "InvalidMatrix"
    ELSE IF pc \in {"call", "loop", "parsed", "graph"} \/ err # NO_ERROR THEN "None"
    ELSE IF ~feedingSparseMatrix THEN "Dense"
    ELSE IF isSymmetric THEN "SparseSymmetric"
    ELSE IF isUpperTriangular THEN "SparseUpperTriangular"
    ELSE IF isLowerTriangular THEN "SparseLowerTriangular"
    ELSE "SparseInvalid"

\* The option string as the engine reads it: split at the blanks
Tokens(str) ==
    LET starts == { i \in 1..Len(str) : str[i] # " " /\ (i = 1 \/ str[i - 1] = " ") }
        ends == { i \in 1..Len(str) : str[i] # " " /\ (i = Len(str) \/ str[i + 1] = " ") }
        kth(S, k) == CHOOSE i \in S : Cardinality({ j \in S : j <= i }) = k
    IN  [k \in 1..Cardinality(starts) |-> SubSeq(str, kth(starts, k), kth(ends, k))]

LowerCase(name) == [i \in 1..Len(name) |-> tolower(name[i])]

Recognized(name) ==
    LowerCase(name) \in { <<"n">>, <<"p">>, <<"y">>, Name_markov }

\* The pairs parse_args has read: pair j is inputArgs[2j-1], inputArgs[2j]
PairCount == Len(inputArgs) \div 2
PairName(j) == inputArgs[2 * j - 1]
PairValue(j) == inputArgs[2 * j]

\* The last pair read, when the last thing read was a pair
LastIsPair == Len(inputArgs) >= 2 /\ Len(inputArgs) % 2 = 0

-----------------------------------------------------------------------------
(* C1: whenever a validation has failed - parse_args returned an error, or the
   triplet list is neither symmetric nor triangular - the engine has not been
   entered and no output slot has been assigned, up to the end of the
   invocation; the engine is entered only with all validation passed. *)
C1_ValidationBeforeEngine ==
    /\ ((Parsed /\ err # NO_ERROR) \/ (Parsed /\ Unclassifiable(W)))
          => engineCalls = 0 /\ outputArgs.assigned = {}
    /\ (engineCalls > 0 \/ outputArgs.assigned # {})
          => Parsed /\ err = NO_ERROR /\ ~MatrixRejected(W) /\ ~Unclassifiable(W)

C1_Witness ==
    /\ pc = "error"
    /\ Unclassifiable(W)
    /\ err = NO_ERROR
    /\ PairCount = 1

(* C2: the edge list handed to the graph for an accepted triplet list is, in
   row order and with the weights unchanged, Edge(c-1, r-1, w) of every row
   when the shape is upper or lower triangular, and of exactly the rows with
   r < c when it is symmetric. *)
ClaimedEdge(row) == <<row[2] - 1, row[1] - 1, row[3]>>

RECURSIVE ClaimedEdges(_, _)
ClaimedEdges(rows, all) ==
    IF rows = <<>> THEN <<>>
    ELSE (IF all \/ Head(rows)[1] < Head(rows)[2]
          THEN <<ClaimedEdge(Head(rows))>> ELSE <<>>)
         \o ClaimedEdges(Tail(rows), all)

C2_EdgeList ==
    (~G.isNull /\ W.N = 3 /\ W.M > 3)
        => /\ MatrixShape \in {"SparseSymmetric", "SparseUpperTriangular",
                               "SparseLowerTriangular"}
           /\ G.edges = ClaimedEdges(W.data, MatrixShape # "SparseSymmetric")

C2_Witness ==
    /\ ~G.isNull
    /\ MatrixShape = "SparseSymmetric"
    /\ W.M = 4
    /\ Len(G.edges) = 2
    /\ G.edges[1][3] # G.edges[2][3]

(* C3 as amended: a triplet list of more than three rows, every row with
   row >= col, is classified SparseLowerTriangular, and one with every row
   row < col SparseUpperTriangular. *)
C3_Triangular ==
    (MatrixShape # "None" /\ RealThreeColumn(W) /\ W.M > 3)
        => /\ (RowsLower(W) = 1..W.M => MatrixShape = "SparseLowerTriangular")
           /\ (RowsUpper(W) = 1..W.M => MatrixShape = "SparseUpperTriangular")

C3_Witness ==
    /\ pc = "returned"
    /\ W.M = 4
    /\ RowsLower(W) = 1..W.M
    /\ \E l \in 1..W.M : W.data[l][1] = W.data[l][2]

(* C3 as stated: the same for every row count M >= 1, M <= 3 included. *)
C3_Original ==
    (MatrixShape # "None" /\ RealThreeColumn(W))
        => /\ (RowsLower(W) = 1..W.M => MatrixShape = "SparseLowerTriangular")
           /\ (RowsUpper(W) = 1..W.M => MatrixShape = "SparseUpperTriangular")

(* C4 as amended: an invocation whose triplet list none of the three tests
   accepts fails; when parse_args accepted the arguments it fails before any
   edge is built and before the engine is entered, with the text of the
   std::logic_error as its whole message: parse_args reports no error, and the
   message has no "Error at argument:" prefix. *)
C4_UnclassifiableFails ==
    (Finished /\ Unclassifiable(W))
        => /\ pc = "error"
           /\ err = NO_ERROR
                => /\ errMsg = <<NotTriangularWhat>>
                   /\ error_arg_pos = -1
                   /\ engineCalls = 0
                   /\ edges = <<>>
                   /\ G.isNull

C4_Witness ==
    /\ Finished
    /\ Unclassifiable(W)
    /\ err = NO_ERROR
    /\ Cardinality(RowsLower(W)) = 3

(* C4 as stated: such an invocation fails with error kind InvalidMatrix, its
   message "Error at argument: <position>: " and the fixed InvalidMatrix text. *)
C4_Original ==
    (Finished /\ Unclassifiable(W))
        => /\ pc = "error"
           /\ err = ERROR_MATRIX
           /\ Len(errMsg) > 1
           /\ errMsg[1] = "Error at argument: "
           /\ errMsg[Len(errMsg)] = error_strings(ERROR_MATRIX)

(* C5: after a successful parse of k pairs the string given to the engine
   is, token by token, one flag per pair in argument order (-N<value>,
   -p<value>, -y<value>, or --markov-time and <value>) followed by --two-level
   as its last token; with no pair it is --two-level alone. *)
ClaimedFlag(name, v) ==
    LET n == LowerCase(name)
    IN  IF n = <<"n">> THEN << <<"-", "N">> \o to_string(v) >>
        ELSE IF n = <<"p">> THEN << <<"-", "p">> \o to_string(v) >>
        ELSE IF n = <<"y">> THEN << <<"-", "y">> \o to_string(v) >>
        ELSE << <<"-", "-">> \o Name_markov, to_string(v) >>

RECURSIVE ClaimedFlags(_)
ClaimedFlags(k) ==
    IF k = 0 THEN <<>>
    ELSE ClaimedFlags(k - 1) \o ClaimedFlag(PairName(k).str, PairValue(k).val)

C5_OptionString ==
    engineCalls > 0
        => /\ Len(inputArgs) = nInputArgs - 1
           /\ Tokens(engineOptions) = ClaimedFlags(PairCount) \o <<TwoLevel>>

C5_Witness ==
    /\ engineCalls > 0
    /\ PairCount = 2
    /\ PairName(1) = PairName(2)
    /\ PairValue(1) # PairValue(2)

C5_WitnessNoPair ==
    /\ engineCalls > 0
    /\ PairCount = 0
    /\ engineOptions = TwoLevel

(* C6: when the pair last read has one of the names N, p, y, markov-time (in
   any letter case) and a non-textual value, parse_args has failed with
   InvalidArgumentValue at the value's position exactly if the value is out of
   range (N, markov-time: below 0; p, y: below 0 or above 1); otherwise the
   pair is accepted, the values 0 and 1 included. *)
ClaimedOutOfRange(name, v) ==
    IF LowerCase(name) \in { <<"p">>, <<"y">> } THEN v < 0 \/ v > Unit ELSE v < 0

C6_ValueRange ==
    (LastIsPair /\ PairName(PairCount).isChar /\ ~PairValue(PairCount).isChar
       /\ Recognized(PairName(PairCount).str))
        => IF ClaimedOutOfRange(PairName(PairCount).str, PairValue(PairCount).val)
           THEN /\ err = ERROR_ARG_VALUE
                /\ error_arg_pos = 2 * PairCount
                /\ pc \in {"parsed", "error"}
           ELSE /\ err = NO_ERROR
                /\ pc # "error" \/ errMsg[1] # "Error at argument: "

C6_Witness ==
    /\ pc = "error"
    /\ PairCount = 2
    /\ err = ERROR_ARG_VALUE
    /\ error_arg_pos = 4
    /\ PairValue(2).val = Unit + 1

C6_WitnessBoundary ==
    /\ pc = "returned"
    /\ PairCount = 2
    /\ LowerCase(PairName(1).str) = <<"p">> /\ PairValue(1).val = Unit
    /\ LowerCase(PairName(2).str) = <<"y">> /\ PairValue(2).val = 0

(* C7: when the pair last read has a textual name and a non-textual value,
   parse_args has failed with UnknownArgument at the name's position exactly
   if the name is none of N, p, y, markov-time in any letter case; the value
   of an unknown name is not range-checked. *)
C7_UnknownName ==
    (LastIsPair /\ PairName(PairCount).isChar /\ ~PairValue(PairCount).isChar)
        => ((err = ERROR_ARG_UNKNOWN /\ error_arg_pos = 2 * PairCount - 1)
               <=> ~Recognized(PairName(PairCount).str))

C7_Witness ==
    /\ pc = "error"
    /\ PairCount = 2
    /\ err = ERROR_ARG_UNKNOWN
    /\ error_arg_pos = 3
    /\ PairValue(2).val < 0

C7_WitnessUpperCase ==
    /\ pc = "returned"
    /\ PairCount = 1
    /\ PairName(1).str = <<"M", "A", "R", "K", "O", "V", "-", "T", "I", "M", "E">>

(* C8: when parse_args, all earlier pairs being valid, comes to a position
   with a single argument left, it fails with DanglingArgument at that
   position whatever that argument is, and the option string has a flag for
   each earlier pair only; so no call with a valid matrix and an even number
   of inputs succeeds. *)
HeaderPassed == Parsed /\ err \notin {ERROR_NOT_ENOUGH_ARGS, ERROR_TOO_MANY_OUTPUT_ARGS,
                                      ERROR_MATRIX}

C8_Dangling ==
    /\ (HeaderPassed /\ pc = "parsed" /\ nInputArgs % 2 = 0
          /\ err \notin {ERROR_ARG_VALUE, ERROR_ARG_TYPE, ERROR_ARG_UNKNOWN})
          => /\ err = ERROR_ARG_EMPTY
             /\ error_arg_pos = nInputArgs - 1
             /\ Len(inputArgs) = nInputArgs - 1
             /\ Tokens(options) = ClaimedFlags((nInputArgs - 2) \div 2)
    /\ (Finished /\ nInputArgs % 2 = 0) => pc = "error" /\ err # NO_ERROR
    /\ err = ERROR_ARG_EMPTY => nInputArgs % 2 = 0 /\ error_arg_pos = nInputArgs - 1

C8_Witness ==
    /\ pc = "error"
    /\ err = ERROR_ARG_EMPTY
    /\ error_arg_pos = 3
    /\ ~inputArgs[3].isChar
    /\ Len(Tokens(options)) = 1

C8_WitnessUnknownLast ==
    /\ pc = "error"
    /\ err = ERROR_ARG_EMPTY
    /\ error_arg_pos = 1
    /\ inputArgs[1].isChar /\ ~Recognized(inputArgs[1].str)

(* C9: from the leaves of the engine and the node count N the invocation
   returns a membership of length N in which membership[originalIndex] is the
   clusterIndex of every leaf; with a leaf whose original index is not below N
   it ends in an error and returns nothing. *)
EngineReturned == engineCalls > 0 /\ exc # "engine failure" /\ Finished

LeafOutside == \E k \in 1..Len(leaves.leaves) : leaves.leaves[k].originalLeafIndex >= G.nodes

C9_Membership ==
    EngineReturned
        => IF LeafOutside
           THEN pc = "error" /\ 1 \notin outputArgs.assigned
           ELSE /\ pc = "returned"
                /\ outputArgs.assigned = {0, 1}
                /\ Len(outputArgs.membership) = G.nodes
                /\ \A k \in 1..Len(leaves.leaves) :
                      outputArgs.membership[leaves.leaves[k].originalLeafIndex + 1]
                          = leaves.leaves[k].parentIndex
                /\ outputArgs.codelength = leaves.codelength

C9_Witness ==
    /\ pc = "returned"
    /\ G.nodes = 3
    /\ leaves.leaves = <<Leaf(2, 0), Leaf(0, 1), Leaf(1, 1)>>
    /\ outputArgs.membership = <<1, 1, 0>>

C9_WitnessOutside ==
    /\ pc = "error"
    /\ G.nodes = 2
    /\ leaves.leaves = <<Leaf(0, 1), Leaf(2, 1)>>

(* C10: every buffer the invocation allocated - the converted parameter name,
   the edge list, the graph object G, the option string - is released when the
   invocation has ended, whichever way it ended. *)
C10_AllReleased == Finished => live = {}

====
